---- MODULE Spec2Model ----
(***************************************************************************)
(* Model of the distributed SimCLR fine-tuning driver (training.py):       *)
(* one operating-system process per (node_index, local_rank), each running *)
(* main() -> train() -> train_one_epoch()/validate_one_epoch(), meeting    *)
(* its peers only at dist.all_reduce and dist.barrier; parse_args(), which  *)
(* builds the Namespace every process is started with; and SimCLR.save /   *)
(* SimCLR.load (simclr.py), the checkpoint round trip.                     *)
(*                                                                         *)
(* Losses are floats in the program; here a loss is a natural number and   *)
(* an average is an exact fraction <<numerator, denominator>> in lowest    *)
(* terms, so rounding is not modelled.                                     *)
(***************************************************************************)
EXTENDS Integers, Sequences, FiniteSets, TLC

\* ------------------------------------------------------------------ bounds
MaxWorld == 2
MaxEpochs == 2
MaxBatches == 2
BatchSize == 2

\* ------------------------------------------------------- values and helpers
\* Python's None, and a value that is not None
None == <<>>
Some(x) == <<x>>

\* a local variable that is not bound yet
Unbound == -1

RECURSIVE GCD(_, _)
GCD(a, b) == IF b = 0 THEN a ELSE GCD(b, a % b)

\* an exact quotient n/d (d > 0) in lowest terms
Frac(n, d) == LET g == GCD(n, d) IN <<n \div g, d \div g>>

FracAdd(a, b) == Frac(a[1] * b[2] + b[1] * a[2], a[2] * b[2])

FracDiv(a, n) == Frac(a[1], a[2] * n)

RECURSIVE FracSum(_, _)
FracSum(f, S) ==
    IF S = {} THEN <<0, 1>>
    ELSE LET x == CHOOSE y \in S : TRUE IN FracAdd(f[x], FracSum(f, S \ {x}))

\* ------------------------------------------------------------------- state
VARIABLES
    args,                  \* the Namespace parse_args returns (same on every process)
    pc,                    \* each process's position in main()/train()
    group,                 \* each process's process-group state
    distributed,           \* train(): local `distributed`
    rank,                  \* train(): local `rank`
    epoch,                 \* train(): loop variable
    step,                  \* batches consumed in the running pass
    running_average_loss,  \* train_one_epoch / validate_one_epoch accumulator
    train_loss,            \* train(): value returned by train_one_epoch
    val_loss,              \* train(): value returned by validate_one_epoch
    lr,                    \* train(): learning rate read in this epoch
    training,              \* model.training
    scheduler,             \* None, or the number of scheduler.step() calls so far
    optimizer_steps,       \* number of optimizer.step() calls so far
    writer,                \* main(): None, or the SummaryWriter (its log_dir)
    train_dataloader,      \* per process: the per-batch losses its loader yields
    val_dataloader,        \* None, or the per-batch losses of the validation loader
    calls,                 \* per process: the collective calls it has issued
    returned,              \* per process: how many of its collective calls returned
    sampler_epochs,        \* per process: the arguments of sampler.set_epoch
    validations,           \* per process: epochs in which validate_one_epoch ran
    destroyed,             \* per process: number of destroy_process_group calls
    dirs,                  \* filesystem: directories created, with their creator
    scalars,               \* metrics sink: add_scalar calls, in order
    files,                 \* filesystem: checkpoint writes, in order
    raised,                \* per process: None, or the exception that ended it
    ops,                   \* per process: calls on model and optimizer, in order
    argv,                  \* the command line parse_args reads
    model,                 \* SimCLR.save: the composite saved (encoder, head)
    disk,                  \* torch.save / torch.load: path -> object serialised
    encoder_arch,          \* SimCLR.load: the encoder instance handed in
    head_arch,             \* SimCLR.load: the head instance handed in
    loaded                 \* SimCLR.load: None, or the composite returned

vars == <<args, pc, group, distributed, rank, epoch, step, running_average_loss,
          train_loss, val_loss, lr, training, scheduler, optimizer_steps, writer,
          train_dataloader, val_dataloader, calls, returned, sampler_epochs,
          validations, destroyed, dirs, scalars, files, raised, ops, argv, model,
          disk, encoder_arch, head_arch, loaded>>

\* ------------------------------------------------------------- the processes
\* One process per device: node_index in [0, nodes), local_rank in [0, gpus).
AllProcs ==
    {p \in (0 .. MaxWorld - 1) \X (0 .. MaxWorld - 1) : (p[1] + 1) * (p[2] + 1) <= MaxWorld + 2}

Procs == {p \in AllProcs : p[1] < args.nodes /\ p[2] < args.gpus}

\* as GlobalRank, but with the node index scaled by the number of nodes
GlobalRankByNodes(p) == p[1] * args.nodes + p[2]

\* main(): rank = args.node_index * args.gpus + local_rank
GlobalRank(p) == p[1] * args.gpus + p[2]

\* parse_args(): args.world_size = args.nodes * args.gpus
WorldSize(nodes, gpus) == nodes * gpus

\* ----------------------------------------------------------------- strings
\* A string is a sequence of tokens; "/" is the path separator token.
Slash == "/"

\* parse_args(): remove the last `/` if present in log_dir
StripSlash(s) == IF s[Len(s)] = Slash THEN SubSeq(s, 1, Len(s) - 1) ELSE s

\* position of the last "/" of s (0 when there is none)
LastSlash(s) ==
    LET at == {i \in 1 .. Len(s) : s[i] = Slash}
    IN IF at = {} THEN 0 ELSE CHOOSE i \in at : \A j \in at : j <= i

\* as RSplit, but splitting at the first "/" (s.split('/', 1))
SplitFirst(s) ==
    LET first == CHOOSE i \in 1 .. Len(s) : s[i] = Slash /\ \A j \in 1 .. i - 1 : s[j] /= Slash
    IN <<SubSeq(s, 1, first - 1), SubSeq(s, first + 1, Len(s))>>

\* s.rsplit('/', 1) for a string that holds a "/"
RSplit(s) == <<SubSeq(s, 1, LastSlash(s) - 1), SubSeq(s, LastSlash(s) + 1, Len(s))>>

\* main(): log_dir = folder + '/' + timestamp
LogDir(folder, timestamp) == folder \o <<Slash>> \o <<timestamp>>

\* main(): folder + '_models/' + timestamp
ModelDir(folder, timestamp) == folder \o <<"_models", Slash>> \o <<timestamp>>

\* train(): the f-string epoch_{epoch+1}.pth
EpochFile(e) == <<"epoch_", e + 1, ".pth">>

\* train(): path of the checkpoint of epoch e, from writer.log_dir
CheckpointPath(log_dir, e) ==
    LET outer_folder == RSplit(log_dir)[1]
        inner_folder == RSplit(log_dir)[2]
    IN outer_folder \o <<"_models", Slash>> \o inner_folder \o <<Slash>> \o EpochFile(e)

\* ---------------------------------------------------------- learning rates
\* A learning rate is the real number c * sqrt(r) / 1000, held as <<c, r>> with
\* r free of square factors, so that equal rates have equal representations.
Milli(c) == <<c, 1>>

\* the largest k such that k * k divides n
SquarePart(n) == CHOOSE k \in 1 .. n : n % (k * k) = 0 /\ \A j \in k + 1 .. n : n % (j * j) /= 0

\* np.sqrt(n) for an integer n >= 1
Sqrt(n) == <<1000 * SquarePart(n), n \div (SquarePart(n) * SquarePart(n))>>

\* the product of the rates a and b
Times(a, b) ==
    LET c == a[1] * b[1]
        r == a[2] * b[2]
    IN <<(c * SquarePart(r)) \div 1000, r \div (SquarePart(r) * SquarePart(r))>>

\* as SqrtRule, but scaling linearly with the total batch size
LinearRule(batch_size, world_size) == Milli(5 * batch_size * world_size)

\* parse_args(): 0.005*np.sqrt(args.batch_size*args.world_size)
SqrtRule(batch_size, world_size) == Times(Milli(5), Sqrt(batch_size * world_size))

\* ------------------------------------------------------------ configuration
\* parse_args(): the Namespace built from the command line
ParseArgs(raw) ==
    [nodes |-> raw.nodes, gpus |-> raw.gpus,
     world_size |-> WorldSize(raw.nodes, raw.gpus),
     epochs |-> raw.epochs, scheduler |-> raw.scheduler,
     val_dataset |-> raw.val_dataset, log_dir |-> StripSlash(raw.log_dir),
     batch_size |-> raw.batch_size,
     lr |-> IF raw.lr = Milli(0)
            THEN SqrtRule(raw.batch_size, WorldSize(raw.nodes, raw.gpus))
            ELSE raw.lr]

\* datetime.now().strftime(...): one token, free of "/"
Timestamp == "ts"

\* main(): scheduler is dropped when --scheduler is 'False'
MakeScheduler == IF args.scheduler = "False" THEN None ELSE Some(0)

\* CosineAnnealingLR: the rate after k steps of a schedule of period args.epochs
CosineLr(k) == <<"cosine", args.lr, k, args.epochs>>

\* optimizer.param_groups[0]['lr'] when no schedule runs
StaticLr == <<"static", args.lr>>

\* ---------------------------------------------------------- train(): tests
\* train(): `if rank == 0`
IsCoordinator(p) == rank[p] = 0

\* train(): `if val_dataloader is not None: if rank == 0`
ShouldValidate(p) == val_dataloader /= None /\ rank[p] = 0

\* as MainIsCoordinator, but testing the local rank
MainIsCoordinatorByLocalRank(p) == p[2] = 0

\* main(): `if rank == 0` around the writer
MainIsCoordinator(p) == GlobalRank(p) = 0

\* as UsesGroup, but for every world size
UsesGroupAlways == TRUE

\* main(): `if args.world_size > 1`
UsesGroup == args.world_size > 1

\* as IsInitialized, but train() never finds a process group
IsInitializedNever(p) == FALSE

\* dist.is_available() and dist.is_initialized()
IsInitialized(p) == group[p] = "Active"

\* ------------------------------------------------------------- collectives
\* A blocking collective call returns once every process of the group has
\* issued its call of the same index and all of them are the same operation.
CollectiveReady(p) ==
    LET k == returned[p] + 1
    IN \A q \in Procs : /\ Len(calls[q]) >= k
                        /\ calls[q][k].op = calls[p][k].op

\* as AllReduceAvg, but reducing with SUM
AllReduceSum(k) == FracSum([q \in Procs |-> calls[q][k].val], Procs)

\* dist.all_reduce(op=AVG): the mean of what the processes contributed
AllReduceAvg(k) ==
    FracDiv(FracSum([q \in Procs |-> calls[q][k].val], Procs), Cardinality(Procs))

\* ---------------------------------------------------------------- helpers
Running(p) == pc[p] \notin {"done", "error", "crashed"}

Failed(p) == pc[p] \in {"error", "crashed"}

\* state of parse_args and of SimCLR.save/load, which main()'s steps leave alone
ioVars == <<argv, model, disk, encoder_arch, head_arch, loaded>>

cfgVars == <<args, train_dataloader, val_dataloader, ioVars>>
fsVars == <<dirs, scalars, files>>
collVars == <<calls, returned>>
passVars == <<step, running_average_loss>>
histVars == <<sampler_epochs, validations, destroyed>>

\* --------------------------------------------------------------- main()
\* main(): global rank, process group, model, optimizer, scheduler, loaders
Setup(p) ==
    /\ p \in Procs
    /\ pc[p] = "main"
    /\ group' = [group EXCEPT ![p] = IF UsesGroup THEN "Active" ELSE @]
    /\ scheduler' = [scheduler EXCEPT ![p] = MakeScheduler]
    /\ pc' = [pc EXCEPT ![p] = "writer"]
    /\ UNCHANGED <<cfgVars, raised, ops,
                   fsVars, collVars, passVars, histVars, distributed, rank,
                   epoch, train_loss, val_loss, lr, training, optimizer_steps, writer>>

\* main(): configure the writer and the model folder (rank 0 only)
ConfigureWriter(p) ==
    /\ p \in Procs
    /\ pc[p] = "writer"
    /\ IF MainIsCoordinator(p)
       THEN /\ writer' = [writer EXCEPT ![p] = Some(LogDir(args.log_dir, Timestamp))]
            /\ dirs' = dirs \cup {[path |-> LogDir(args.log_dir, Timestamp), by |-> p],
                                  [path |-> ModelDir(args.log_dir, Timestamp), by |-> p]}
       ELSE /\ writer' = [writer EXCEPT ![p] = None]
            /\ dirs' = dirs
    /\ pc' = [pc EXCEPT ![p] = "train"]
    /\ UNCHANGED <<cfgVars, raised, ops,
                   scalars, files, collVars, passVars, histVars, group,
                   distributed, rank, epoch, train_loss, val_loss, lr, training,
                   scheduler, optimizer_steps>>

\* main(): destroy the process group after train() returned
Teardown(p) ==
    /\ p \in Procs
    /\ pc[p] = "ended"
    /\ IF UsesGroup
       THEN /\ group' = [group EXCEPT ![p] = "Destroyed"]
            /\ destroyed' = [destroyed EXCEPT ![p] = @ + 1]
       ELSE UNCHANGED <<group, destroyed>>
    /\ pc' = [pc EXCEPT ![p] = "done"]
    /\ UNCHANGED <<cfgVars, raised, ops,
                   fsVars, collVars, passVars, sampler_epochs, validations,
                   distributed, rank, epoch, train_loss, val_loss, lr, training,
                   scheduler, optimizer_steps, writer>>

\* --------------------------------------------------------------- train()
\* as GetRank, but returning the rank inside the node
GetLocalRank(p) == p[2]

\* dist.get_rank(): the rank setup() handed to init_process_group
GetRank(p) == GlobalRank(p)

\* train(): lines before the epoch loop
TrainEnter(p) ==
    /\ p \in Procs
    /\ pc[p] = "train"
    /\ distributed' = [distributed EXCEPT ![p] = IsInitialized(p)]
    /\ rank' = [rank EXCEPT ![p] = IF IsInitialized(p) THEN GetRank(p) ELSE 0]
    /\ epoch' = [epoch EXCEPT ![p] = 0]
    /\ pc' = [pc EXCEPT ![p] = "loop"]
    /\ UNCHANGED <<cfgVars, raised, ops,
                   fsVars, collVars, passVars, histVars, group, train_loss,
                   val_loss, lr, training, scheduler, optimizer_steps, writer>>

\* train(): `if distributed` before sampler.set_epoch(epoch)
SetsSamplerEpoch(p) == distributed[p]

\* as ReducesLoss, but with the reduction inside the coordinator's branch
ReducesLossOnCoordinator(p) == distributed[p] /\ rank[p] = 0

\* train_one_epoch(): `if distributed` before dist.all_reduce
ReducesLoss(p) == distributed[p]

\* as CallsBarrier, but with the barrier left out
CallsBarrierNever(p) == FALSE

\* as CallsBarrier, but with the barrier inside the coordinator's branch
CallsBarrierOnCoordinator(p) == distributed[p] /\ rank[p] = 0

\* train(): `if distributed` before dist.barrier()
CallsBarrier(p) == distributed[p]

\* as AfterLr, but validating on every rank
AfterLrOnEveryRank(p) ==
    IF val_dataloader /= None THEN "validate"
    ELSE IF IsCoordinator(p) THEN "log" ELSE "sync"

\* train(): where a process goes after the learning-rate lines
AfterLr(p) ==
    IF ShouldValidate(p) THEN "validate"
    ELSE IF IsCoordinator(p) THEN "log" ELSE "sync"

\* train(): where a process goes after the validation lines
AfterValidation(p) == IF IsCoordinator(p) THEN "log" ELSE "sync"

\* as TrainMode, but leaving the mode as the last epoch left it
TrainModeKept(p) == training[p]

\* train(): model.train(True)
TrainMode(p) == TRUE

\* train(): head of `for epoch in range(epochs)`, set_epoch, model.train(True)
LoopHead(p) ==
    /\ p \in Procs
    /\ pc[p] = "loop"
    /\ IF epoch[p] < args.epochs
       THEN /\ sampler_epochs' = [sampler_epochs EXCEPT ![p] =
                                     IF SetsSamplerEpoch(p) THEN Append(@, epoch[p]) ELSE @]
            /\ training' = [training EXCEPT ![p] = TrainMode(p)]
            /\ step' = [step EXCEPT ![p] = Unbound]
            /\ running_average_loss' = [running_average_loss EXCEPT ![p] = <<0, 1>>]
            /\ pc' = [pc EXCEPT ![p] = "batch"]
       ELSE /\ pc' = [pc EXCEPT ![p] = "ended"]
            /\ UNCHANGED <<sampler_epochs, training, step, running_average_loss>>
    /\ UNCHANGED <<cfgVars, raised, ops,
                   fsVars, collVars, validations, destroyed, group, distributed,
                   rank, epoch, train_loss, val_loss, lr, scheduler, optimizer_steps,
                   writer>>

\* as NormalizeError, but with `step` read as -1 after an empty loop
NormalizeErrorDivision(last_step) == "ZeroDivisionError"

\* `x /= (step+1)`: the exception the statement raises for a `step` that has no
\* value (the name is bound by the for loop only; an empty loop never binds it)
NormalizeError(last_step) ==
    IF last_step = Unbound THEN "UnboundLocalError" ELSE "ZeroDivisionError"

\* enumerate(loader): index of the batch the loop takes next
NextStep(p) == IF step[p] = Unbound THEN 0 ELSE step[p] + 1

\* number of entries of the sequence s that satisfy Test
Count(s, Test(_)) == Cardinality({i \in 1 .. Len(s) : Test(s[i])})

IsOptimizerStep(call) == call = "step"

\* as TrainCalls, but without clearing the gradients
TrainCallsWithoutZeroGrad == <<"forward", "loss", "backward", "step">>

\* train_one_epoch(): the calls on model, criterion and optimizer for one batch
TrainCalls == <<"zero_grad", "forward", "loss", "backward", "step">>

\* validate_one_epoch(): the calls on model and criterion for one batch
ValCalls == <<"forward", "loss">>

\* train_one_epoch(): one batch (zero_grad, forward, loss, backward, step, accumulate)
TrainBatch(p) ==
    /\ p \in Procs
    /\ pc[p] = "batch"
    /\ NextStep(p) < Len(train_dataloader[p])
    /\ LET batch == train_dataloader[p][NextStep(p) + 1]
       IN running_average_loss' = [running_average_loss EXCEPT ![p] =
                                      FracAdd(@, <<batch.loss, 1>>)]
    /\ step' = [step EXCEPT ![p] = NextStep(p)]
    /\ optimizer_steps' = [optimizer_steps EXCEPT ![p] = @ + Count(TrainCalls, IsOptimizerStep)]
    /\ ops' = [ops EXCEPT ![p] = @ \o TrainCalls]
    /\ UNCHANGED <<cfgVars, raised,
                   fsVars, collVars, histVars, pc, group, distributed, rank,
                   epoch, train_loss, val_loss, lr, training, scheduler, writer>>

\* as TrainNormalize, but dividing by the number of samples
TrainNormalizeBySamples(sum, last_step) == FracDiv(sum, (last_step + 1) * BatchSize)

\* train_one_epoch(): running_average_loss /= (step+1)
TrainNormalize(sum, last_step) == FracDiv(sum, last_step + 1)

\* train_one_epoch(): after the loop: normalise, then all_reduce when distributed
TrainAverage(p) ==
    /\ p \in Procs
    /\ pc[p] = "batch"
    /\ NextStep(p) >= Len(train_dataloader[p])
    /\ IF step[p] = Unbound
       THEN \* `step` is unbound after an empty loop
            /\ pc' = [pc EXCEPT ![p] = "error"]
            /\ raised' = [raised EXCEPT ![p] = Some(NormalizeError(step[p]))]
            /\ UNCHANGED <<running_average_loss, train_loss, calls>>
       ELSE LET avg == TrainNormalize(running_average_loss[p], step[p])
            IN /\ running_average_loss' = [running_average_loss EXCEPT ![p] = avg]
               /\ IF ReducesLoss(p)
                  THEN /\ calls' = [calls EXCEPT ![p] =
                                       Append(@, [op |-> "all_reduce", val |-> avg])]
                       /\ pc' = [pc EXCEPT ![p] = "all_reduce"]
                       /\ UNCHANGED train_loss
                  ELSE /\ train_loss' = [train_loss EXCEPT ![p] = avg]
                       /\ pc' = [pc EXCEPT ![p] = "lr"]
                       /\ UNCHANGED calls
               /\ UNCHANGED raised
    /\ UNCHANGED <<cfgVars, ops,
                   fsVars, histVars, returned, step, group, distributed, rank,
                   epoch, val_loss, lr, training, scheduler, optimizer_steps, writer>>

\* train_one_epoch(): dist.all_reduce returns; return running_average_loss.item()
AllReduceReturn(p) ==
    /\ p \in Procs
    /\ pc[p] = "all_reduce"
    /\ CollectiveReady(p)
    /\ returned' = [returned EXCEPT ![p] = @ + 1]
    /\ running_average_loss' = [running_average_loss EXCEPT ![p] =
                                   AllReduceAvg(returned[p] + 1)]
    /\ train_loss' = [train_loss EXCEPT ![p] = AllReduceAvg(returned[p] + 1)]
    /\ pc' = [pc EXCEPT ![p] = "lr"]
    /\ UNCHANGED <<cfgVars, raised, ops,
                   fsVars, histVars, calls, step, group, distributed, rank,
                   epoch, val_loss, lr, training, scheduler, optimizer_steps, writer>>

\* as GetLastLr, but read after scheduler.step()
GetLrAfterStep(p) == CosineLr(scheduler[p][1] + 1)

\* train(): scheduler.get_last_lr()[0]
GetLastLr(p) == CosineLr(scheduler[p][1])

\* train(): read the learning rate, advance the schedule
StepScheduler(p) ==
    /\ p \in Procs
    /\ pc[p] = "lr"
    /\ IF scheduler[p] /= None
       THEN /\ lr' = [lr EXCEPT ![p] = GetLastLr(p)]
            /\ scheduler' = [scheduler EXCEPT ![p] = Some(@[1] + 1)]
       ELSE /\ lr' = [lr EXCEPT ![p] = StaticLr]
            /\ UNCHANGED scheduler
    /\ pc' = [pc EXCEPT ![p] = AfterLr(p)]
    /\ UNCHANGED <<cfgVars, raised, ops,
                   fsVars, collVars, passVars, histVars, group, distributed,
                   rank, epoch, train_loss, val_loss, training, optimizer_steps, writer>>

\* train(): model.eval(); validate_one_epoch(): val_loss = 0.
ValidateEnter(p) ==
    /\ p \in Procs
    /\ pc[p] = "validate"
    /\ training' = [training EXCEPT ![p] = FALSE]
    /\ validations' = [validations EXCEPT ![p] = Append(@, epoch[p])]
    /\ step' = [step EXCEPT ![p] = Unbound]
    /\ val_loss' = [val_loss EXCEPT ![p] = <<0, 1>>]
    /\ pc' = [pc EXCEPT ![p] = "val_batch"]
    /\ UNCHANGED <<cfgVars, raised, ops,
                   fsVars, collVars, sampler_epochs, destroyed,
                   running_average_loss, group, distributed, rank, epoch, train_loss,
                   lr, scheduler, optimizer_steps, writer>>

\* validate_one_epoch(): one batch (forward, loss, accumulate) under no_grad
ValBatch(p) ==
    /\ p \in Procs
    /\ pc[p] = "val_batch"
    /\ NextStep(p) < Len(val_dataloader[1])
    /\ LET batch == val_dataloader[1][NextStep(p) + 1]
       IN val_loss' = [val_loss EXCEPT ![p] = FracAdd(@, <<batch.loss, 1>>)]
    /\ step' = [step EXCEPT ![p] = NextStep(p)]
    /\ optimizer_steps' = [optimizer_steps EXCEPT ![p] = @ + Count(ValCalls, IsOptimizerStep)]
    /\ ops' = [ops EXCEPT ![p] = @ \o ValCalls]
    /\ UNCHANGED <<cfgVars, raised,
                   fsVars, collVars, histVars, running_average_loss, pc, group,
                   distributed, rank, epoch, train_loss, lr, training, scheduler,
                   writer>>

\* validate_one_epoch(): val_loss /= (step+1)
ValNormalize(sum, last_step) == FracDiv(sum, last_step + 1)

\* validate_one_epoch(): after the loop: normalise and return
ValAverage(p) ==
    /\ p \in Procs
    /\ pc[p] = "val_batch"
    /\ NextStep(p) >= Len(val_dataloader[1])
    /\ IF step[p] = Unbound
       THEN /\ pc' = [pc EXCEPT ![p] = "error"]
            /\ raised' = [raised EXCEPT ![p] = Some(NormalizeError(step[p]))]
            /\ UNCHANGED val_loss
       ELSE /\ val_loss' = [val_loss EXCEPT ![p] = ValNormalize(@, step[p])]
            /\ pc' = [pc EXCEPT ![p] = AfterValidation(p)]
            /\ UNCHANGED raised
    /\ UNCHANGED <<cfgVars, ops,
                   fsVars, collVars, histVars, passVars, group, distributed,
                   rank, epoch, train_loss, lr, training, scheduler, optimizer_steps,
                   writer>>

\* as EpochScalars, but logging the validation loss unconditionally
EpochScalarsWithValidation(p) ==
    <<[tag |-> "Loss/train", value |-> train_loss[p], step |-> epoch[p], by |-> p],
      [tag |-> "Loss/validation", value |-> val_loss[p], step |-> epoch[p], by |-> p],
      [tag |-> "Misc/learning_rate", value |-> lr[p], step |-> epoch[p], by |-> p]>>

\* train(): the add_scalar calls of one epoch
EpochScalars(p) ==
    <<[tag |-> "Loss/train", value |-> train_loss[p], step |-> epoch[p], by |-> p]>>
    \o (IF val_dataloader /= None
        THEN <<[tag |-> "Loss/validation", value |-> val_loss[p], step |-> epoch[p],
                by |-> p]>>
        ELSE <<>>)
    \o <<[tag |-> "Misc/learning_rate", value |-> lr[p], step |-> epoch[p], by |-> p]>>

\* train(): print the summary and log the quantities (coordinator branch)
LogScalars(p) ==
    /\ p \in Procs
    /\ pc[p] = "log"
    /\ IF writer[p] = None
       THEN \* add_scalar on None
            /\ pc' = [pc EXCEPT ![p] = "error"]
            /\ raised' = [raised EXCEPT ![p] = Some("AttributeError")]
            /\ UNCHANGED scalars
       ELSE /\ scalars' = scalars \o EpochScalars(p)
            /\ pc' = [pc EXCEPT ![p] = "save"]
            /\ UNCHANGED raised
    /\ UNCHANGED <<cfgVars, ops,
                   dirs, files, collVars, passVars, histVars, group,
                   distributed, rank, epoch, train_loss, val_loss, lr, training,
                   scheduler, optimizer_steps, writer>>

\* train(): save the actual model (coordinator branch)
SaveCheckpoint(p) ==
    /\ p \in Procs
    /\ pc[p] = "save"
    /\ files' = Append(files, [path |-> CheckpointPath(writer[p][1], epoch[p]),
                               epoch |-> epoch[p], by |-> p])
    /\ pc' = [pc EXCEPT ![p] = "sync"]
    /\ UNCHANGED <<cfgVars, raised, ops,
                   dirs, scalars, collVars, passVars, histVars, group,
                   distributed, rank, epoch, train_loss, val_loss, lr, training,
                   scheduler, optimizer_steps, writer>>

\* train(): `if distributed: dist.barrier()` is reached; else the next iteration
EndEpoch(p) ==
    /\ p \in Procs
    /\ pc[p] = "sync"
    /\ IF CallsBarrier(p)
       THEN /\ calls' = [calls EXCEPT ![p] = Append(@, [op |-> "barrier", val |-> <<0, 1>>])]
            /\ pc' = [pc EXCEPT ![p] = "barrier"]
            /\ UNCHANGED epoch
       ELSE /\ epoch' = [epoch EXCEPT ![p] = @ + 1]
            /\ pc' = [pc EXCEPT ![p] = "loop"]
            /\ UNCHANGED calls
    /\ UNCHANGED <<cfgVars, raised, ops,
                   fsVars, returned, passVars, histVars, group, distributed,
                   rank, train_loss, val_loss, lr, training, scheduler, optimizer_steps,
                   writer>>

\* train(): dist.barrier() returns; the loop takes its next iteration
BarrierReturn(p) ==
    /\ p \in Procs
    /\ pc[p] = "barrier"
    /\ CollectiveReady(p)
    /\ returned' = [returned EXCEPT ![p] = @ + 1]
    /\ epoch' = [epoch EXCEPT ![p] = @ + 1]
    /\ pc' = [pc EXCEPT ![p] = "loop"]
    /\ UNCHANGED <<cfgVars, raised, ops,
                   fsVars, calls, passVars, histVars, group, distributed, rank,
                   train_loss, val_loss, lr, training, scheduler, optimizer_steps, writer>>

\* ------------------------------------------------------------ environment
\* A process dies (killed, out of memory, hardware fault); at most one does.
Crash(p) ==
    /\ p \in Procs
    /\ Running(p)
    /\ \A q \in Procs : pc[q] /= "crashed"
    /\ pc' = [pc EXCEPT ![p] = "crashed"]
    /\ UNCHANGED <<cfgVars, raised, ops,
                   fsVars, collVars, passVars, histVars, group, distributed,
                   rank, epoch, train_loss, val_loss, lr, training, scheduler,
                   optimizer_steps, writer>>

\* ------------------------------------------------------------------- runs
\* the command lines of a run of `nodes` nodes with `gpus` devices each
RawArgs(log_dirs) ==
    {raw \in [nodes : 1 .. MaxWorld, gpus : 1 .. MaxWorld, epochs : {1, MaxEpochs},
              scheduler : {"True", "False"}, val_dataset : {"None", "val"},
              log_dir : log_dirs, batch_size : {BatchSize}, lr : {Milli(0)}] :
        raw.nodes * raw.gpus <= MaxWorld}

\* a loader of n batches of BatchSize samples; the loss of batch i is base + i
Loader(base, n) == [i \in 1 .. n |-> [loss |-> base + i, size |-> BatchSize]]

InitLocals ==
    /\ pc = [p \in Procs |-> "main"]
    /\ group = [p \in Procs |-> "Uninitialized"]
    /\ distributed = [p \in Procs |-> FALSE]
    /\ rank = [p \in Procs |-> Unbound]
    /\ epoch = [p \in Procs |-> Unbound]
    /\ step = [p \in Procs |-> Unbound]
    /\ running_average_loss = [p \in Procs |-> <<0, 1>>]
    /\ train_loss = [p \in Procs |-> None]
    /\ val_loss = [p \in Procs |-> None]
    /\ lr = [p \in Procs |-> None]
    /\ training = [p \in Procs |-> TRUE]
    /\ scheduler = [p \in Procs |-> None]
    /\ optimizer_steps = [p \in Procs |-> 0]
    /\ writer = [p \in Procs |-> None]
    /\ calls = [p \in Procs |-> <<>>]
    /\ returned = [p \in Procs |-> 0]
    /\ sampler_epochs = [p \in Procs |-> <<>>]
    /\ validations = [p \in Procs |-> <<>>]
    /\ destroyed = [p \in Procs |-> 0]
    /\ raised = [p \in Procs |-> None]
    /\ ops = [p \in Procs |-> <<>>]
    /\ dirs = {}
    /\ scalars = <<>>
    /\ files = <<>>

\* no checkpoint is loaded or saved outside train()
NoCheckpoint ==
    /\ model = None
    /\ disk = <<>>
    /\ encoder_arch = None
    /\ head_arch = None
    /\ loaded = None

\* Every node is given the same datasets: the sampler hands every process the
\* same number of batches, and the validation loader is the same everywhere.
Init ==
    /\ \E raw \in RawArgs({<<"runs">>}) : argv = raw /\ args = ParseArgs(raw)
    /\ \E n \in {0, 1, MaxBatches} :
          train_dataloader = [p \in Procs |-> Loader(GlobalRank(p), n)]
    /\ \E n \in {0, MaxBatches} :
          val_dataloader = IF args.val_dataset = "None" THEN None ELSE Some(Loader(2, n))
    /\ InitLocals
    /\ NoCheckpoint

Run(p) ==
    \/ Setup(p) \/ ConfigureWriter(p) \/ TrainEnter(p) \/ LoopHead(p)
    \/ TrainBatch(p) \/ TrainAverage(p) \/ AllReduceReturn(p) \/ StepScheduler(p)
    \/ ValidateEnter(p) \/ ValBatch(p) \/ ValAverage(p) \/ LogScalars(p)
    \/ SaveCheckpoint(p) \/ EndEpoch(p) \/ BarrierReturn(p) \/ Teardown(p)

Next ==
    \/ \E p \in AllProcs : Setup(p)
    \/ \E p \in AllProcs : ConfigureWriter(p)
    \/ \E p \in AllProcs : TrainEnter(p)
    \/ \E p \in AllProcs : LoopHead(p)
    \/ \E p \in AllProcs : TrainBatch(p)
    \/ \E p \in AllProcs : TrainAverage(p)
    \/ \E p \in AllProcs : AllReduceReturn(p)
    \/ \E p \in AllProcs : StepScheduler(p)
    \/ \E p \in AllProcs : ValidateEnter(p)
    \/ \E p \in AllProcs : ValBatch(p)
    \/ \E p \in AllProcs : ValAverage(p)
    \/ \E p \in AllProcs : LogScalars(p)
    \/ \E p \in AllProcs : SaveCheckpoint(p)
    \/ \E p \in AllProcs : EndEpoch(p)
    \/ \E p \in AllProcs : BarrierReturn(p)
    \/ \E p \in AllProcs : Teardown(p)
    \/ \E p \in AllProcs : Crash(p)

Spec == Init /\ [][Next]_vars

\* a step of the program, as opposed to a failure of a process
Program == \E p \in AllProcs : Run(p)

\* --------------------------------------------------- runs over wider inputs
LogDirs == {<<"runs">>, <<"runs", Slash, "exp1", Slash>>}

\* a validation loader (drop_last=False): the last batch holds a single sample
RaggedLoader(base, n) ==
    [i \in 1 .. n |-> [loss |-> base + i, size |-> IF i = n THEN 1 ELSE BatchSize]]

\* One process per node, every node with its own copy of the training set (the
\* copies may differ in length), any log_dir, a ragged validation loader; no
\* process fails.
InputInit ==
    /\ \E raw \in RawArgs(LogDirs) :
          /\ raw.gpus = 1 /\ raw.epochs = MaxEpochs /\ raw.scheduler = "True"
          /\ argv = raw /\ args = ParseArgs(raw)
    /\ \E n \in [0 .. args.nodes - 1 -> 1 .. MaxBatches] :
          train_dataloader = [p \in Procs |-> Loader(GlobalRank(p), n[p[1]])]
    /\ val_dataloader =
          IF args.val_dataset = "None" THEN None ELSE Some(RaggedLoader(2, MaxBatches))
    /\ InitLocals
    /\ NoCheckpoint

InputSpec == InputInit /\ [][Program]_vars

\* ---------------------------------------------- runs over grids of devices
\* Several nodes with several devices each (at most MaxWorld + 2 processes),
\* one epoch over one batch, with and without validation; no process fails.
GridInit ==
    /\ \E raw \in [nodes : 1 .. MaxWorld, gpus : 1 .. MaxWorld, epochs : {1},
                    scheduler : {"True"}, val_dataset : {"None", "val"},
                    log_dir : {<<"runs">>}, batch_size : {BatchSize}, lr : {Milli(0)}] :
          /\ raw.nodes * raw.gpus <= MaxWorld + 2
          /\ argv = raw /\ args = ParseArgs(raw)
    /\ train_dataloader = [p \in Procs |-> Loader(GlobalRank(p), 1)]
    /\ val_dataloader = IF args.val_dataset = "None" THEN None ELSE Some(Loader(2, 1))
    /\ InitLocals
    /\ NoCheckpoint

GridSpec == GridInit /\ [][Program]_vars

\* ENABLED Run(p), spelled out: a process that has not ended can take a step
\* unless it is inside a collective call that cannot return yet
CanRun(p) ==
    /\ Running(p)
    /\ pc[p] \in {"all_reduce", "barrier"} => CollectiveReady(p)

\* ========================================================= SimCLR.save/load
\* A module (encoder or head) is the sequence of its parameters in registration
\* order, each a name with a tensor; a tensor is a shape with its data.
Shapes == {1, 2}

Values == {0, 1}

Tensors == [shape : Shapes, data : Values]

Modules ==
    {<<[name |-> "weight", tensor |-> w]>> : w \in Tensors}
    \cup {<<[name |-> "weight", tensor |-> w], [name |-> "bias", tensor |-> b]>> :
             w \in Tensors, b \in {t \in Tensors : t.shape = 1}}

Paths == {"epoch_1.pth"}

\* the names of the entries of a module or of a state dict
Names(entries) == {entries[i].name : i \in 1 .. Len(entries)}

\* the tensor held under a name
Lookup(entries, name) == (CHOOSE i \in 1 .. Len(entries) : entries[i].name = name)

\* module.state_dict(): parameter name -> tensor, in registration order
StateDict(module) == [i \in 1 .. Len(module) |-> [name |-> module[i].name, tensor |-> module[i].tensor]]

\* as SaveState, but with the head stored under the attribute's name
SaveStateByAttribute(composite) ==
    [key \in {"encoder", "contrastive_head"} |->
        IF key = "encoder" THEN StateDict(composite.encoder)
        ELSE StateDict(composite.contrastive_head)]

\* SimCLR.save(): state = {'encoder': ..., 'head': ...}
SaveState(composite) ==
    [key \in {"encoder", "head"} |->
        IF key = "encoder" THEN StateDict(composite.encoder)
        ELSE StateDict(composite.contrastive_head)]

\* load_state_dict (strict): names the module lacks, names the state lacks,
\* names whose tensors differ in shape
Mismatches(module, state) ==
    (Names(module) \ Names(state)) \cup (Names(state) \ Names(module))
    \cup {n \in Names(module) \cap Names(state) :
             module[Lookup(module, n)].tensor.shape /= state[Lookup(state, n)].tensor.shape}

\* as Matches, but satisfied by any state that covers the module's names
MatchesLoosely(module, state) == Names(module) \subseteq Names(state)

\* load_state_dict (strict): the state fits the module
Matches(module, state) == Mismatches(module, state) = {}

\* load_state_dict: the module after the call; every parameter the state holds
\* with the same shape is copied in place, also when the call then raises
LoadStateDict(module, state) ==
    [i \in 1 .. Len(module) |->
        IF module[i].name \in Names(state) /\ module[i].name \notin Mismatches(module, state)
        THEN [name |-> module[i].name, tensor |-> state[Lookup(state, module[i].name)].tensor]
        ELSE module[i]]

\* SimCLR.__init__()
SimCLR(encoder, contrastive_head) == [encoder |-> encoder, contrastive_head |-> contrastive_head]

\* the training driver does not run
NoRun ==
    /\ pc = <<>> /\ group = <<>> /\ distributed = <<>> /\ rank = <<>> /\ epoch = <<>>
    /\ step = <<>> /\ running_average_loss = <<>> /\ train_loss = <<>> /\ val_loss = <<>>
    /\ lr = <<>> /\ training = <<>> /\ scheduler = <<>> /\ optimizer_steps = <<>>
    /\ writer = <<>> /\ train_dataloader = <<>> /\ val_dataloader = None
    /\ calls = <<>> /\ returned = <<>> /\ sampler_epochs = <<>> /\ validations = <<>>
    /\ destroyed = <<>> /\ ops = <<>>
    /\ dirs = {} /\ scalars = <<>> /\ files = <<>>

runVars == <<args, pc, group, distributed, rank, epoch, step, running_average_loss,
             train_loss, val_loss, lr, training, scheduler, optimizer_steps, writer,
             train_dataloader, val_dataloader, calls, returned, sampler_epochs,
             validations, destroyed, dirs, scalars, files, ops>>

\* SimCLR.save(path)
Save(path) ==
    /\ path \notin DOMAIN disk
    /\ loaded = None /\ raised = None
    /\ disk' = [q \in DOMAIN disk \cup {path} |-> IF q = path THEN SaveState(model) ELSE disk[q]]
    /\ UNCHANGED <<runVars, argv, model, encoder_arch, head_arch, loaded, raised>>

\* SimCLR.load(path, encoder_arch, head_arch)
Load(path) ==
    /\ loaded = None /\ raised = None
    /\ IF path \notin DOMAIN disk
       THEN \* torch.load of a file that does not exist
            /\ raised' = Some("FileNotFoundError")
            /\ UNCHANGED <<encoder_arch, head_arch, loaded>>
       ELSE LET checkpoint == disk[path]
            IN IF "encoder" \notin DOMAIN checkpoint
               THEN /\ raised' = Some("KeyError")
                    /\ UNCHANGED <<encoder_arch, head_arch, loaded>>
               ELSE /\ encoder_arch' = LoadStateDict(encoder_arch, checkpoint["encoder"])
                    /\ IF ~Matches(encoder_arch, checkpoint["encoder"])
                       THEN /\ raised' = Some("RuntimeError")
                            /\ UNCHANGED <<head_arch, loaded>>
                       ELSE IF "head" \notin DOMAIN checkpoint
                       THEN /\ raised' = Some("KeyError")
                            /\ UNCHANGED <<head_arch, loaded>>
                       ELSE /\ head_arch' = LoadStateDict(head_arch, checkpoint["head"])
                            /\ IF ~Matches(head_arch, checkpoint["head"])
                               THEN /\ raised' = Some("RuntimeError")
                                    /\ UNCHANGED loaded
                               ELSE /\ loaded' = Some(SimCLR(encoder_arch', head_arch'))
                                    /\ UNCHANGED raised
    /\ UNCHANGED <<runVars, argv, model, disk>>

\* any composite to save, any two instances to load into
CheckpointInit ==
    /\ NoRun
    /\ args = None /\ argv = None
    /\ model \in {SimCLR(e, h) : e \in Modules, h \in Modules}
    /\ encoder_arch \in Modules
    /\ head_arch \in Modules
    /\ disk = <<>>
    /\ loaded = None
    /\ raised = None

CheckpointNext ==
    \/ \E path \in Paths : Save(path)
    \/ \E path \in Paths : Load(path)

CheckpointSpec == CheckpointInit /\ [][CheckpointNext]_vars

\* ============================================================= parse_args
\* command lines: any node count, devices per node, batch size and --lr
CommandLines ==
    [nodes : 1 .. MaxWorld, gpus : {1, 4, 8}, epochs : {MaxEpochs},
     scheduler : {"True", "False"}, val_dataset : {"None"}, log_dir : LogDirs,
     batch_size : {1, 8, 32}, lr : {Milli(0), Milli(80), Milli(300)}]

\* parse_args(): from the command line to the Namespace
Parse ==
    /\ args = None
    /\ args' = ParseArgs(argv)
    /\ UNCHANGED <<pc, group, distributed, rank, epoch, step, running_average_loss,
                   train_loss, val_loss, lr, training, scheduler, optimizer_steps,
                   writer, train_dataloader, val_dataloader, calls, returned,
                   sampler_epochs, validations, destroyed, dirs, scalars, files, ops,
                   raised, ioVars>>

ArgsInit ==
    /\ argv \in CommandLines
    /\ args = None
    /\ NoRun
    /\ NoCheckpoint
    /\ raised = None

ArgsSpec == ArgsInit /\ [][Parse]_vars

\* ================================================================== claims
\* the process that is node 0, device 0
Zero == <<0, 0>>

IsTrainScalar(x) == x.tag = "Loss/train"
IsValScalar(x) == x.tag = "Loss/validation"
IsLrScalar(x) == x.tag = "Misc/learning_rate"

\* epochs whose loop iteration process p has completed
Completed(p) == IF epoch[p] = Unbound THEN 0 ELSE epoch[p]

\* C1: a process whose global rank is not 0 never creates a directory, never
\* writes a metric and never saves a checkpoint; the rank-0 process saves
\* exactly one checkpoint per epoch, after that epoch's training pass: the
\* i-th checkpoint is the one of epoch i-1, there is one for every completed
\* epoch and at most one more, and all E of them once rank 0 is done.
CoordinatorOnlyWrites ==
    /\ \A d \in dirs : d.by[1] * args.gpus + d.by[2] = 0
    /\ \A i \in 1 .. Len(scalars) : scalars[i].by[1] * args.gpus + scalars[i].by[2] = 0
    /\ \A i \in 1 .. Len(files) :
          /\ files[i].by[1] * args.gpus + files[i].by[2] = 0
          /\ files[i].epoch = i - 1
    /\ Len(files) >= Completed(Zero)
    /\ Len(files) <= Completed(Zero) + 1
    /\ Len(files) <= Count(scalars, IsTrainScalar)
    /\ Count(scalars, IsTrainScalar) <= Len(files) + 1
    /\ pc[Zero] \in {"loop", "batch", "all_reduce", "lr", "ended", "done"}
          => Len(files) = Completed(Zero)
    /\ pc[Zero] = "done" => Len(files) = args.epochs

\* C1 witness: a distributed run has ended; the other process wrote nothing
\* and rank 0 holds one checkpoint per epoch
CoordinatorOnlyWritesWitness ==
    /\ args.world_size > 1
    /\ args.epochs = MaxEpochs
    /\ \A p \in Procs : pc[p] = "done"
    /\ Len(files) = MaxEpochs

\* the k-th collective call of an epoch loop: all_reduce, barrier, all_reduce, ...
ExpectedOp(k) == IF k % 2 = 1 THEN "all_reduce" ELSE "barrier"

\* the number of collective calls a process at its position must have issued
ExpectedCalls(p) ==
    IF args.world_size = 1 \/ pc[p] \in {"main", "writer", "train"} THEN 0
    ELSE IF pc[p] \in {"loop", "batch", "ended", "done"} THEN 2 * epoch[p]
    ELSE IF pc[p] = "barrier" THEN 2 * epoch[p] + 2
    ELSE 2 * epoch[p] + 1

\* C2: in a distributed run every process, whatever its rank and whether or
\* not validation is configured, issues all_reduce, barrier, all_reduce, ...:
\* one all_reduce at the end of the training pass and one barrier at the end
\* of the epoch, 2E calls in all, and none while it is in the lines only the
\* coordinator runs (validation, logging, checkpoint).
UniformCollectives ==
    \A p \in Procs :
        /\ \A k \in 1 .. Len(calls[p]) : calls[p][k].op = ExpectedOp(k)
        /\ ~Failed(p) => Len(calls[p]) = ExpectedCalls(p)
        /\ Len(calls[p]) <= 2 * args.epochs
        /\ args.world_size > 1 =>
              Len(calls[p]) \in {2 * Completed(p), 2 * Completed(p) + 1, 2 * Completed(p) + 2}
        /\ args.world_size > 1 /\ pc[p] = "done" => Len(calls[p]) = 2 * args.epochs

\* C2 witness: with validation configured, rank 0 has validated in every epoch
\* and both it and the other process have issued their 2E calls
UniformCollectivesWitness ==
    /\ args.world_size > 1
    /\ args.epochs = MaxEpochs
    /\ val_dataloader /= None
    /\ Len(validations[Zero]) = MaxEpochs
    /\ \A p \in Procs : pc[p] = "done" /\ Len(calls[p]) = 2 * MaxEpochs

\* how far process p is in main(): grows with every step p takes
Period == 2 * MaxBatches + 10

Offset(p) ==
    CASE pc[p] = "loop" -> 0
      [] pc[p] = "batch" -> 1 + NextStep(p)
      [] pc[p] = "all_reduce" -> MaxBatches + 2
      [] pc[p] = "lr" -> MaxBatches + 3
      [] pc[p] = "validate" -> MaxBatches + 4
      [] pc[p] = "val_batch" -> MaxBatches + 5 + NextStep(p)
      [] pc[p] = "log" -> 2 * MaxBatches + 6
      [] pc[p] = "save" -> 2 * MaxBatches + 7
      [] pc[p] = "sync" -> 2 * MaxBatches + 8
      [] pc[p] = "barrier" -> 2 * MaxBatches + 9
      [] pc[p] = "ended" -> 1
      [] pc[p] = "done" -> 2

Progress(p) ==
    CASE pc[p] = "main" -> 0
      [] pc[p] = "writer" -> 1
      [] pc[p] = "train" -> 2
      [] Failed(p) -> 3 + (MaxEpochs + 1) * Period
      [] OTHER -> 3 + epoch[p] * Period + Offset(p)

AllTornDown ==
    \A p \in Procs : pc[p] = "done" /\ epoch[p] = args.epochs /\ group[p] = "Destroyed"

SomeFailed == \E p \in Procs : Failed(p)

ReachedBarrier(q, e) == Len(calls[q]) >= 2 * e + 2

\* rank 0 has logged and saved epoch e
CoordinatorFinished(e) ==
    /\ \E i \in 1 .. Len(files) : files[i].epoch = e
    /\ \E i \in 1 .. Len(scalars) : scalars[i].tag = "Misc/learning_rate" /\ scalars[i].step = e
    /\ val_dataloader /= None => e + 1 <= Len(validations[Zero])

\* C4: in a distributed run a process is in epoch e+1 (its loop variable, or an
\* argument it gave sampler.set_epoch) only if every process has reached the
\* barrier that ends epoch e, and rank 0 has then validated, logged and saved
\* epoch e.
BarrierOrdersEpochs ==
    \A p \in Procs : \A e \in 0 .. MaxEpochs :
        (/\ args.world_size > 1
         /\ \/ epoch[p] = e + 1
            \/ \E i \in 1 .. Len(sampler_epochs[p]) : sampler_epochs[p][i] = e + 1)
        => /\ \A q \in Procs : ReachedBarrier(q, e)
           /\ CoordinatorFinished(e)

\* C4 witness: the non-coordinator is in the training pass of epoch 1 while
\* rank 0, which validated and saved epoch 0, is still inside its barrier
BarrierOrdersEpochsWitness ==
    /\ args.world_size > 1
    /\ val_dataloader /= None
    /\ pc[Zero] = "barrier" /\ epoch[Zero] = 0
    /\ \E p \in Procs \ {Zero} :
          pc[p] = "batch" /\ epoch[p] = 1 /\ sampler_epochs[p] = <<0, 1>>

\* a process failed in a distributed run before issuing all its collective calls
FailedEarly(q) ==
    /\ args.world_size > 1
    /\ Failed(q)
    /\ Len(calls[q]) < 2 * args.epochs

\* process p is inside a collective call that process q never issued
BlockedOn(p, q) ==
    /\ pc[p] \in {"all_reduce", "barrier"}
    /\ Len(calls[p]) = Len(calls[q]) + 1
    /\ returned[p] = Len(calls[q])

\* C5: once a process of a distributed run has failed before a collective call,
\* no other process ever returns from a collective call the failed one did not
\* reach and none finishes the run; a process that has not failed and cannot
\* take a step is inside a collective call, and when no process can take a
\* step any more, every process that has not failed is inside the first
\* collective call that a failed process never issued.
StallAfterFailure ==
    \A q \in Procs : FailedEarly(q) =>
        \A p \in Procs \ {q} :
            /\ returned[p] <= Len(calls[q])
            /\ pc[p] \notin {"ended", "done"}
            /\ ~Failed(p) /\ ~CanRun(p) =>
                  pc[p] \in {"all_reduce", "barrier"} /\ returned[p] = Len(calls[p]) - 1
            /\ ~Failed(p) /\ (\A r \in Procs : ~CanRun(r)) =>
                  \E f \in Procs : Failed(f) /\ BlockedOn(p, f)

\* C5 witness: rank 0 died in its validation pass of epoch 0; the other
\* process, which trained epoch 0, is inside the barrier and cannot leave
StallAfterFailureWitness ==
    /\ pc[Zero] = "crashed" /\ FailedEarly(Zero)
    /\ Len(validations[Zero]) = 1 /\ files = <<>>
    /\ \E p \in Procs \ {Zero} : BlockedOn(p, Zero) /\ pc[p] = "barrier"

\* C9: without a validation loader no process ever runs validate_one_epoch and
\* no Loss/validation is logged, while rank 0 still logs Loss/train and then
\* Misc/learning_rate once per epoch, tagged with the epoch index.
ValidationSkipped ==
    val_dataloader = None =>
        /\ \A p \in Procs : validations[p] = <<>> /\ val_loss[p] = None
        /\ \A i \in 1 .. Len(scalars) :
              /\ scalars[i].tag = (IF i % 2 = 1 THEN "Loss/train" ELSE "Misc/learning_rate")
              /\ scalars[i].step = (i - 1) \div 2
              /\ scalars[i].by = Zero
        /\ Len(scalars) \in {2 * Completed(Zero), 2 * Completed(Zero) + 2}
        /\ pc[Zero] = "done" => Len(scalars) = 2 * args.epochs

\* C9 witness: a distributed run without validation has ended and rank 0 has
\* logged the two scalars of every epoch
ValidationSkippedWitness ==
    /\ val_dataloader = None
    /\ args.world_size > 1
    /\ \A p \in Procs : pc[p] = "done"
    /\ Len(scalars) = 2 * MaxEpochs

\* C10: the process group is set up only when world_size > 1 and before any
\* collective call, it is destroyed once, only after set-up and only when the
\* training loop has ended with no collective call pending, and a collective
\* call is issued or returns only while the group is Active (never when
\* world_size is 1).
GroupLifecycle ==
    /\ [](\A p \in Procs :
            /\ args.world_size = 1 =>
                  group[p] = "Uninitialized" /\ calls[p] = <<>> /\ destroyed[p] = 0
            /\ group[p] = "Uninitialized" => calls[p] = <<>> /\ destroyed[p] = 0
            /\ pc[p] \in {"all_reduce", "barrier"} => group[p] = "Active"
            /\ group[p] = "Destroyed" =>
                  /\ pc[p] = "done" /\ epoch[p] = args.epochs
                  /\ returned[p] = Len(calls[p])
            /\ destroyed[p] = (IF group[p] = "Destroyed" THEN 1 ELSE 0)
            /\ pc[p] = "done" => destroyed[p] = (IF args.world_size > 1 THEN 1 ELSE 0))
    /\ [][\A p \in Procs :
            /\ calls'[p] /= calls[p] \/ returned'[p] /= returned[p]
                  => group[p] = "Active" /\ group'[p] = "Active"
            /\ group'[p] /= group[p] =>
                  \/ group[p] = "Uninitialized" /\ group'[p] = "Active"
                  \/ group[p] = "Active" /\ group'[p] = "Destroyed"]_vars

\* C10 witness: a process of a distributed run has destroyed its group after
\* all its collective calls returned
GroupLifecycleWitness ==
    \E p \in Procs :
        /\ args.world_size > 1 /\ args.epochs = MaxEpochs
        /\ group[p] = "Destroyed" /\ destroyed[p] = 1
        /\ returned[p] = 2 * MaxEpochs

\* sum of the per-batch losses of a loader
RECURSIVE LossSum(_)
LossSum(loader) == IF loader = <<>> THEN 0 ELSE Head(loader).loss + LossSum(Tail(loader))

\* number of samples of a loader
RECURSIVE Samples(_)
Samples(loader) == IF loader = <<>> THEN 0 ELSE Head(loader).size + Samples(Tail(loader))

\* (l0 + ... + lk) / (k + 1)
MeanLoss(loader) == Frac(LossSum(loader), Len(loader))

\* the values a/b and c/d are equal
SameValue(x, y) == x[1] * y[2] = y[1] * x[2]

RECURSIVE MeanOfMeans(_)
\* sum over the processes of S of their local average losses
MeanOfMeans(S) ==
    IF S = {} THEN <<0, 1>>
    ELSE LET q == CHOOSE x \in S : TRUE
         IN FracAdd(MeanLoss(train_dataloader[q]), MeanOfMeans(S \ {q}))

\* the unweighted mean of the processes' local average losses
UnweightedMean == FracDiv(MeanOfMeans(Procs), Cardinality(Procs))

RECURSIVE TotalLoss(_)
TotalLoss(S) ==
    IF S = {} THEN 0
    ELSE LET q == CHOOSE x \in S : TRUE IN LossSum(train_dataloader[q]) + TotalLoss(S \ {q})

RECURSIVE TotalBatches(_)
TotalBatches(S) ==
    IF S = {} THEN 0
    ELSE LET q == CHOOSE x \in S : TRUE IN Len(train_dataloader[q]) + TotalBatches(S \ {q})

\* the mean re-weighted by each process's batch count
WeightedMean == Frac(TotalLoss(Procs), TotalBatches(Procs))

\* C6: in a distributed run the loss train_one_epoch returns is, on every
\* process, the unweighted mean of the N local average losses, and it is the
\* value rank 0 logs as Loss/train.
DistributedAverage ==
    args.world_size > 1 =>
        /\ \A p \in Procs : train_loss[p] /= None => train_loss[p] = UnweightedMean
        /\ \A p \in Procs : \A k \in 1 .. Len(calls[p]) :
              calls[p][k].op = "all_reduce" => calls[p][k].val = MeanLoss(train_dataloader[p])
        /\ \A i \in 1 .. Len(scalars) :
              scalars[i].tag = "Loss/train" => scalars[i].value = UnweightedMean

\* C6 witness: two processes with loaders of different lengths both hold the
\* reduced loss, rank 0 has logged it, and it differs from the mean weighted
\* by batch count and from each local average
DistributedAverageWitness ==
    /\ args.world_size > 1
    /\ \A p \in Procs : train_loss[p] /= None
    /\ \E p, q \in Procs : Len(train_dataloader[p]) /= Len(train_dataloader[q])
    /\ \E i \in 1 .. Len(scalars) : scalars[i].tag = "Loss/train"
    /\ ~SameValue(UnweightedMean, WeightedMean)
    /\ \A p \in Procs : ~SameValue(UnweightedMean, MeanLoss(train_dataloader[p]))

\* C7: in a non-distributed run train_one_epoch returns the sum of the
\* per-batch losses divided by the number of batches, and validate_one_epoch
\* normalises the validation loss in the same way; these are the logged values.
BatchCountAverage ==
    args.world_size = 1 =>
        /\ train_loss[Zero] /= None => train_loss[Zero] = MeanLoss(train_dataloader[Zero])
        /\ pc[Zero] \in {"log", "save", "sync", "loop", "batch", "lr", "validate"}
              /\ val_loss[Zero] /= None
              => val_loss[Zero] = MeanLoss(val_dataloader[1])
        /\ \A i \in 1 .. Len(scalars) :
              /\ scalars[i].tag = "Loss/train"
                    => scalars[i].value = MeanLoss(train_dataloader[Zero])
              /\ scalars[i].tag = "Loss/validation"
                    => scalars[i].value = MeanLoss(val_dataloader[1])

\* C7 witness: a non-distributed run has logged both losses of an epoch over
\* loaders of more than one batch, the validation loader ending on a smaller
\* batch, so that batches and samples give different means
BatchCountAverageWitness ==
    /\ args.world_size = 1
    /\ Len(train_dataloader[Zero]) > 1
    /\ val_dataloader /= None
    /\ Len(val_dataloader[1]) > 1
    /\ Samples(val_dataloader[1]) /= Len(val_dataloader[1]) * BatchSize
    /\ \E i \in 1 .. Len(scalars) : scalars[i].tag = "Loss/validation"
    /\ ~SameValue(MeanLoss(train_dataloader[Zero]),
                  Frac(LossSum(train_dataloader[Zero]), Samples(train_dataloader[Zero])))

\* C8: the i-th checkpoint written is epoch_<i>.pth, the file of the epoch of
\* index i-1, inside the directory <log_dir>_models/<timestamp> that main
\* created; the files of a run are pairwise distinct and all E of them exist
\* once rank 0 is done.
CheckpointPaths ==
    /\ \A i \in 1 .. Len(files) :
          /\ files[i].epoch = i - 1
          /\ files[i].path = args.log_dir \o <<"_models", "/", Timestamp, "/", "epoch_", i, ".pth">>
          /\ \E d \in dirs :
                /\ d.path = args.log_dir \o <<"_models", "/", Timestamp>>
                /\ files[i].path = d.path \o <<"/", "epoch_", i, ".pth">>
    /\ \A i, j \in 1 .. Len(files) : i /= j => files[i].path /= files[j].path
    /\ Len(files) <= args.epochs
    /\ pc[Zero] = "done" => Len(files) = args.epochs

\* C8 witness: a run whose log_dir was given with inner and trailing "/" has
\* ended and written its last checkpoint, epoch_<E>.pth
CheckpointPathsWitness ==
    /\ args.log_dir = <<"runs", "/", "exp1">>
    /\ args.epochs = MaxEpochs
    /\ pc[Zero] = "done"
    /\ Len(files) = MaxEpochs
    /\ files[MaxEpochs].path =
          <<"runs", "/", "exp1", "_models", "/", "ts", "/", "epoch_", MaxEpochs, ".pth">>

\* process p was handed an empty loader and its pass over it is over
EmptyPassOver(p) ==
    \/ train_dataloader[p] = <<>> /\ pc[p] \notin {"main", "writer", "train", "loop", "batch"}
    \/ /\ val_dataloader = Some(<<>>)
       /\ validations[p] /= <<>>
       /\ pc[p] /= "val_batch"

\* C11 as stated: a pass over an empty loader ends the process with a
\* division by zero in the loss normalization instead of returning a loss.
EmptyLoaderDividesByZero ==
    \A p \in Procs : EmptyPassOver(p) /\ pc[p] /= "crashed" =>
        /\ pc[p] = "error"
        /\ raised[p] = Some("ZeroDivisionError")

\* C11, amended: a pass over an empty loader ends the process at the loss
\* normalization with an unbound-local error on `step`, which the empty loop
\* never assigned, not with a division by zero; the error is not handled, no
\* loss is returned or logged, and a process whose loaders are not empty
\* raises nothing.
EmptyLoaderFails ==
    \A p \in Procs :
        /\ EmptyPassOver(p) /\ pc[p] /= "crashed" =>
              /\ pc[p] = "error"
              /\ raised[p] = Some("UnboundLocalError")
              /\ step[p] = Unbound
        /\ train_dataloader[p] = <<>> => train_loss[p] = None /\ scalars = <<>>
        /\ val_dataloader = Some(<<>>) => val_loss[p] \in {None, <<0, 1>>} /\ scalars = <<>>
        /\ raised[p] /= None =>
              /\ pc[p] = "error"
              /\ train_dataloader[p] = <<>> \/ val_dataloader = Some(<<>>)
        /\ pc[p] = "error" => raised[p] /= None

\* C11 witness: rank 0 trained an epoch over a non-empty loader and then failed
\* in validate_one_epoch over an empty validation loader
EmptyLoaderFailsWitness ==
    /\ val_dataloader = Some(<<>>)
    /\ train_dataloader[Zero] /= <<>>
    /\ train_loss[Zero] /= None
    /\ validations[Zero] = <<0>>
    /\ raised[Zero] = Some("UnboundLocalError")

\* the parameter names of a module with the shape of each
Architecture(module) == {<<module[i].name, module[i].tensor.shape>> : i \in 1 .. Len(module)}

\* the parameters of a module: name, shape and data
Parameters(module) ==
    {<<module[i].name, module[i].tensor.shape, module[i].tensor.data>> : i \in 1 .. Len(module)}

\* the instances handed to load have the architecture of the model saved
InstancesMatch ==
    /\ Architecture(encoder_arch) = Architecture(model.encoder)
    /\ Architecture(head_arch) = Architecture(model.contrastive_head)

\* load has run on a checkpoint that save wrote
LoadedSaved == DOMAIN disk /= {} /\ (loaded /= None \/ raised /= None)

\* C12: save writes a checkpoint with exactly the keys encoder and head, each
\* holding the parameters of that part of the model; load of it into instances
\* of the same architecture returns a composite whose encoder and head have
\* the parameters of the model saved.
SaveLoadRoundTrip ==
    /\ \A path \in DOMAIN disk :
          /\ DOMAIN disk[path] = {"encoder", "head"}
          /\ Parameters(disk[path]["encoder"]) = Parameters(model.encoder)
          /\ Parameters(disk[path]["head"]) = Parameters(model.contrastive_head)
    /\ LoadedSaved /\ InstancesMatch =>
          /\ loaded /= None
          /\ Parameters(loaded[1].encoder) = Parameters(model.encoder)
          /\ Parameters(loaded[1].contrastive_head) = Parameters(model.contrastive_head)

\* C12 witness: a model whose encoder and head differ, both with a bias, was saved
\* and loaded back
SaveLoadRoundTripWitness ==
    /\ loaded /= None
    /\ Len(model.encoder) = 2 /\ Len(model.contrastive_head) = 2
    /\ Parameters(model.encoder) /= Parameters(model.contrastive_head)
    /\ Parameters(loaded[1].encoder) = Parameters(model.encoder)

\* C13: load of a saved checkpoint into an encoder or a head instance whose
\* parameter names or shapes differ from the checkpoint's entry raises the
\* state-mismatch error of load_state_dict and returns no composite; nothing
\* recovers from it, and a composite is returned only without an error.
LoadFailsOnMismatch ==
    /\ LoadedSaved /\ ~InstancesMatch => raised = Some("RuntimeError") /\ loaded = None
    /\ raised /= None => loaded = None
    /\ loaded /= None => raised = None /\ InstancesMatch

\* C13 witness: the encoder instance matched and was overwritten, then the head
\* instance did not match: the load failed and returned nothing
LoadFailsOnMismatchWitness ==
    /\ LoadedSaved
    /\ raised = Some("RuntimeError")
    /\ loaded = None
    /\ Parameters(encoder_arch) = Parameters(model.encoder)
    /\ Architecture(head_arch) /= Architecture(model.contrastive_head)

\* C14: parse_args computes world_size as nodes * gpus and resolves the
\* learning rate by the square-root rule exactly when --lr is 0: the resolved
\* rate is then the non-negative number whose square is 0.005^2 * batch_size *
\* world_size (0.08 for batch_size 32 and world_size 8); any other --lr is
\* left as given.
LearningRateRule ==
    args /= None =>
        /\ args.world_size = argv.nodes * argv.gpus
        /\ argv.lr = Milli(0) =>
              /\ args.lr[1] * args.lr[1] * args.lr[2] = 25 * argv.batch_size * args.world_size
              /\ \A k \in 2 .. args.lr[2] : args.lr[2] % (k * k) /= 0
        /\ argv.lr /= Milli(0) => args.lr = argv.lr
        /\ argv.lr = Milli(0) /\ argv.batch_size = 32 /\ args.world_size = 8
              => args.lr = Milli(80)

\* C14 witness: --lr 0 with batch_size 32 on one node of 8 devices resolved to 0.08
LearningRateRuleWitness ==
    /\ args /= None
    /\ argv.lr = Milli(0) /\ argv.batch_size = 32
    /\ argv.nodes = 1 /\ argv.gpus = 8
    /\ args.lr = Milli(80)

\* the epoch indices 0 .. n-1 in order
Epochs(n) == [i \in 1 .. n |-> i - 1]

\* the steps of one epoch that process p has behind it
PastSetEpoch(p) ==
    pc[p] \in {"batch", "all_reduce", "lr", "validate", "val_batch", "log", "save", "sync", "barrier"}

PastValidation(p) == pc[p] \in {"val_batch", "log", "save", "sync", "barrier"}

\* the positions process p may move to from where it is, by the order of the
\* steps of an epoch
Successors(p) ==
    LET coordinator == p[1] * args.gpus + p[2] = 0
        parallel == args.world_size > 1
    IN CASE pc[p] = "main" -> {"writer"}
         [] pc[p] = "writer" -> {"train"}
         [] pc[p] = "train" -> {"loop"}
         [] pc[p] = "loop" -> IF epoch[p] < args.epochs THEN {"batch"} ELSE {"ended"}
         [] pc[p] = "batch" -> {IF parallel THEN "all_reduce" ELSE "lr", "error"}
         [] pc[p] = "all_reduce" -> {"lr"}
         [] pc[p] = "lr" -> IF ~coordinator THEN {"sync"}
                            ELSE IF val_dataloader /= None THEN {"validate"} ELSE {"log"}
         [] pc[p] = "validate" -> {"val_batch"}
         [] pc[p] = "val_batch" -> {"log", "error"}
         [] pc[p] = "log" -> {"save"}
         [] pc[p] = "save" -> {"sync"}
         [] pc[p] = "sync" -> {IF parallel THEN "barrier" ELSE "loop"}
         [] pc[p] = "barrier" -> {"loop"}
         [] pc[p] = "ended" -> {"done"}
         [] OTHER -> {}

\* C15: within a process the steps of epoch e run in the order set_epoch(e)
\* (distributed runs only, once per epoch), training pass, learning rate,
\* validation (rank 0 with a validation loader only), logging then checkpoint
\* (rank 0 only), barrier (distributed runs only), and the epoch index moves
\* on by one only after the last of them; set_epoch is never called in a
\* non-distributed run and a non-zero rank never validates.
EpochOrder ==
    /\ [](\A p \in Procs :
            /\ args.world_size = 1 => sampler_epochs[p] = <<>>
            /\ args.world_size > 1 /\ epoch[p] /= Unbound /\ ~Failed(p) =>
                  sampler_epochs[p] = Epochs(epoch[p] + (IF PastSetEpoch(p) THEN 1 ELSE 0))
            /\ p[1] * args.gpus + p[2] /= 0 \/ val_dataloader = None => validations[p] = <<>>
            /\ p[1] * args.gpus + p[2] = 0 /\ val_dataloader /= None /\ epoch[p] /= Unbound
                  /\ ~Failed(p) =>
                  validations[p] = Epochs(epoch[p] + (IF PastValidation(p) THEN 1 ELSE 0))
            /\ Len(sampler_epochs[p]) <= args.epochs /\ Len(validations[p]) <= args.epochs)
    /\ [][\A p \in Procs :
            /\ pc'[p] /= pc[p] => pc'[p] \in Successors(p) \cup {"crashed"}
            /\ epoch'[p] /= epoch[p] =>
                  /\ pc'[p] = "loop"
                  /\ epoch'[p] = (IF pc[p] = "train" THEN 0 ELSE epoch[p] + 1)
            /\ sampler_epochs'[p] /= sampler_epochs[p] => pc[p] = "loop" /\ pc'[p] = "batch"
            /\ validations'[p] /= validations[p] => pc[p] = "validate"]_vars

\* C15 witness: in a distributed run with validation, a non-zero rank is in the
\* training pass of its second epoch, having set the sampler epoch twice and
\* never validated, while rank 0 is logging the first epoch after validating it
EpochOrderWitness ==
    /\ args.world_size > 1
    /\ val_dataloader /= None
    /\ pc[Zero] = "barrier" /\ validations[Zero] = <<0>> /\ Len(files) = 1
    /\ \E p \in Procs \ {Zero} :
          /\ pc[p] = "all_reduce" /\ epoch[p] = 1
          /\ sampler_epochs[p] = <<0, 1>>
          /\ validations[p] = <<>>

\* process p has read the learning rate of the epoch it is in
PastLr(p) == pc[p] \in {"validate", "val_batch", "log", "save", "sync", "barrier"}

\* the number of epochs in which process p has read the learning rate
LrReads(p) == IF epoch[p] = Unbound THEN 0 ELSE epoch[p] + (IF PastLr(p) THEN 1 ELSE 0)

\* C16: with a schedule, the rate recorded in epoch e is the rate the schedule
\* gives after e steps (read before the step of epoch e), every process steps
\* its schedule once per epoch, so that after e epochs it has taken e steps,
\* and processes that are equally far hold the same rate; without a schedule no
\* step is taken and the recorded rate is the optimizer's static rate, the
\* same in every epoch.
LearningRateSchedule ==
    /\ \A p \in Procs : ~Failed(p) /\ pc[p] \notin {"main", "writer"} =>
          IF args.scheduler = "True"
          THEN /\ scheduler[p] = <<LrReads(p)>>
               /\ LrReads(p) > 0 => lr[p] = <<"cosine", args.lr, LrReads(p) - 1, args.epochs>>
               /\ pc[p] \in {"ended", "done"} => scheduler[p] = <<args.epochs>>
          ELSE /\ scheduler[p] = None
               /\ LrReads(p) > 0 => lr[p] = <<"static", args.lr>>
    /\ \A p, q \in Procs :
          ~Failed(p) /\ ~Failed(q) /\ LrReads(p) = LrReads(q) /\ LrReads(p) > 0
              => lr[p] = lr[q] /\ scheduler[p] = scheduler[q]
    /\ \A i \in 1 .. Len(scalars) : scalars[i].tag = "Misc/learning_rate" =>
          scalars[i].value = (IF args.scheduler = "True"
                              THEN <<"cosine", args.lr, scalars[i].step, args.epochs>>
                              ELSE <<"static", args.lr>>)

\* C16 witness: a distributed run with a schedule has ended; every process took
\* one schedule step per epoch and rank 0 logged, for the last epoch, the rate
\* read before that epoch's step
LearningRateScheduleWitness ==
    /\ args.world_size > 1
    /\ args.epochs = MaxEpochs
    /\ \A p \in Procs : pc[p] = "done" /\ scheduler[p] = <<MaxEpochs>>
    /\ scalars[Len(scalars)].tag = "Misc/learning_rate"
    /\ scalars[Len(scalars)].value = <<"cosine", args.lr, MaxEpochs - 1, MaxEpochs>>

\* the positions of ops[p] that hold the call `name`
CallsOf(p, name) == {i \in 1 .. Len(ops[p]) : ops[p][i] = name}

\* process p is past the training pass of the epoch it is in
PastTraining(p) ==
    pc[p] \in {"all_reduce", "lr", "validate", "val_batch", "log", "save", "sync", "barrier"}

\* the batches process p has trained on so far
BatchesTrained(p) ==
    IF epoch[p] = Unbound THEN 0
    ELSE epoch[p] * Len(train_dataloader[p])
         + (IF pc[p] = "batch" THEN NextStep(p)
            ELSE IF PastTraining(p) THEN Len(train_dataloader[p]) ELSE 0)

TrainsInTrainingMode ==
    /\ [](\A p \in Procs :
            /\ pc[p] \in {"batch", "all_reduce", "lr"} => training[p]
            /\ ~training[p] => validations[p] /= <<>> /\ p[1] * args.gpus + p[2] = 0
            /\ pc[p] \in {"val_batch", "log", "save", "sync", "barrier"} /\ validations[p] /= <<>>
                  => ~training[p])
    /\ [][\A p \in Procs :
            /\ ops'[p] = ops[p] \o TrainCalls => training[p]
            /\ pc[p] = "loop" /\ pc'[p] = "batch" => training'[p]]_vars

\* C19 witness: rank 0, which validated epoch 0 in evaluation mode, is in the
\* training pass of epoch 1 in training mode, as is the other process
TrainsInTrainingModeWitness ==
    /\ args.world_size > 1
    /\ validations[Zero] = <<0>>
    /\ \A p \in Procs : pc[p] = "batch" /\ epoch[p] = 1 /\ step[p] = 0 /\ training[p]

\* the global ranks of the processes of the run, as main() computes them
RanksInUse == {GlobalRank(p) : p \in Procs}

\* C18: the global rank of the process on device local_rank of node node_index
\* is node_index * gpus + local_rank; over the nodes * gpus processes these
\* ranks are pairwise distinct and are exactly 0 .. world_size - 1, so that one
\* process, device 0 of node 0, is the coordinator; the rank train() holds is
\* this one and never changes.
GlobalRanks ==
    /\ [](/\ \A p, q \in Procs : p /= q => GlobalRank(p) /= GlobalRank(q)
          /\ RanksInUse = 0 .. args.world_size - 1
          /\ Cardinality(Procs) = args.world_size
          /\ {p \in Procs : GlobalRank(p) = 0} = {Zero}
          /\ \A p \in Procs :
                /\ rank[p] /= Unbound => rank[p] = p[1] * args.gpus + p[2]
                /\ rank[p] = 0 \/ writer[p] /= None => p = Zero)
    /\ [][\A p \in Procs : rank[p] /= Unbound => rank'[p] = rank[p]]_vars

\* C18 witness: on 2 nodes of 2 devices the four processes hold ranks 0, 1, 2, 3
GlobalRanksWitness ==
    /\ args.nodes = 2 /\ args.gpus = 2
    /\ rank[<<0, 0>>] = 0 /\ rank[<<0, 1>>] = 1
    /\ rank[<<1, 0>>] = 2 /\ rank[<<1, 1>>] = 3
    /\ \A p \in Procs : pc[p] = "done"

\* C20: the rank on which train() gates logging and checkpointing is 0 only
\* on the process for which main() computed rank 0 and so created the writer
\* and the model directory; the coordinator branch always finds a writer and
\* never fails on a missing one, in runs of one process and of several.
CoordinatorHasWriter ==
    \A p \in Procs :
        /\ rank[p] = 0 =>
              /\ p[1] * args.gpus + p[2] = 0
              /\ writer[p] = <<args.log_dir \o <<"/", Timestamp>>>>
              /\ \E d \in dirs : d.by = p /\ d.path = writer[p][1]
              /\ \E d \in dirs : d.by = p /\ d.path = args.log_dir \o <<"_models", "/", Timestamp>>
        /\ pc[p] \in {"log", "save"} => rank[p] = 0 /\ writer[p] /= None
        /\ raised[p] /= Some("AttributeError")
        /\ pc[p] = "done" /\ p = Zero => Len(scalars) > 0 /\ Len(files) = args.epochs

\* C20 witness: on 2 nodes of 2 devices rank 0 has logged and saved through its
\* writer while the three other processes, which have none, skipped the branch
CoordinatorHasWriterWitness ==
    /\ args.nodes = 2 /\ args.gpus = 2
    /\ pc[Zero] = "barrier" /\ Len(files) = 1 /\ writer[Zero] /= None
    /\ \A p \in Procs \ {Zero} : pc[p] = "barrier" /\ writer[p] = None /\ rank[p] > 0

====
